---- MODULE Spec2Model ----
(***************************************************************************)
(* World of Bits (src/src/main.ts): the game-state engine of the D3.d      *)
(* program: deterministic base tokens, the sparse override store           *)
(* cellStates, the visible grid cellRects, the one-slot hand heldToken,    *)
(* the movement facade and the localStorage snapshot.                      *)
(*                                                                         *)
(* Geographic positions are fixed-point integers in units of 0.00005       *)
(* degree, so that CELL_SIZE (0.00025) is 5 units and START_LAT/START_LNG  *)
(* are exact.  Math.floor(x / CELL_SIZE) is floorOfQuotient[x].            *)
(*                                                                         *)
(* A value "T | null" of the program is a sequence of length at most one:  *)
(* NULL is << >> and a present value v is <<v>>.                           *)
(***************************************************************************)
EXTENDS Integers, FiniteSets, Sequences, TLC

VARIABLES playerCell,   \* let playerCell: CellCoord
          heldToken,    \* let heldToken: number | null
          cellStates,   \* const cellStates = new Map<CellKey, CellState>()
          cellRects,    \* keys of the Map cellRects: the active cells
          activated,    \* rectangles created by the last refreshVisibleGrid
          deactivated,  \* rectangles removed by the last refreshVisibleGrid
          storage,      \* localStorage, the four wob_v1_* items
          status,       \* the message shown by the last updateStatus
          mapBounds,    \* map.getBounds() as read by the last refreshVisibleGrid
          controller,   \* let controller: the mode of the current MovementController
          watching,     \* a watchPosition watch of this page is registered
          bound,        \* the n/s/w/e buttons carry onclick handlers
          crashed,      \* the module's top-level code ended in an uncaught exception
          storageFault, \* "none", or "denied": every localStorage access throws
          locationSearch, \* the movement parameter of location.search
          geoFeed,      \* "ok", "unsupported" (no navigator.geolocation) or "denied"
          delivered,    \* observer: the last onMoveTo call of the started Geo source
          reloading,    \* location.reload() was called, the document is not yet replaced
          baseCalls     \* observer: what the calls of baseTokenValue returned, or NULL

vars == <<playerCell, heldToken, cellStates, cellRects, activated, deactivated,
          storage, status, mapBounds, controller, watching, bound, crashed,
          storageFault, locationSearch, geoFeed, delivered, reloading, baseCalls>>

\* The page's environment: it changes only when the page is loaded or a
\* reload is requested.
page == <<crashed, storageFault, locationSearch, geoFeed, reloading>>

\* The started movement sources.
sources == <<controller, watching, bound>>

----------------------------------------------------------------------------
(* Config *)

START_LAT == 739828

START_LNG == -2441218

CELL_SIZE == 5

INTERACTION_RADIUS == 3

\* BASE_TOKEN_PROBABILITY = 0.18, as a percentage
BASE_TOKEN_PROBABILITY == 18

\* The player is kept within MaxStep steps of the start cell.
MaxStep == 1

NULL == << >>

Some(v) == <<v>>

----------------------------------------------------------------------------
(* Types + helpers *)

Abs(x) == IF x < 0 THEN -x ELSE x

\* floor(log2(a)), for a >= 1
RECURSIVE log2(_)
log2(a) ==
    IF a < 2 THEN 0
    ELSE LET s == IF a >= 2^16 THEN 16 ELSE IF a >= 2^8 THEN 8
                  ELSE IF a >= 2^4 THEN 4 ELSE 1
         IN  s + log2(a \div 2^s)

\* Math.floor(x / CELL_SIZE) as the doubles compute it.  x is the double
\* nearest to the position, and CELL_SIZE the double nearest to 0.00025 degrees,
\* which is (1 + 12 / 2^59) / 4000.  Inside a cell the quotient is far from an
\* integer and its floor is the cell's index.  On the border of the cell k
\* (x = k * CELL_SIZE, a = |k|, p = log2(a)) the double of x is
\* (k / 4000) * (1 + e / (a * 2^(59-E))), where 125 * 2^E <= 128 * a < 125 * 2^(E+1)
\* and e, between -62 and 62, is what rounding the significand
\* a * 2^(59-E) / 125 to an integer adds; the quotient is then
\* k * (1 + e / (a * 2^(59-E))) / (1 + 12 / 2^59), and the division rounds it
\* to a double below k > 0 when e * 2^E - 12 * a < -64 * 2^p, and below k < 0
\* when e * 2^E - 12 * a > 64 * 2^p: the floor is then k - 1.

\* E
quotientExponent(a, p) == IF 125 * 2^(p + 1) <= 128 * a THEN p + 1 ELSE p

\* e: with r = a * 2^(59-E) modulo 125, -r if r <= 62 and 125 - r otherwise
significandError(a, E) ==
    62 - (((a % 125) * (2^30 % 125) * (2^(29 - E) % 125) + 62) % 125)

\* The quotient of the border of the cell k is a double nearer to zero than k.
roundsBelow(k, a, p, E) ==
    (IF k > 0 THEN 1 ELSE -1) * (significandError(a, E) * 2^E - 12 * a) < -64 * 2^p

floorOnBorder(k, a, p) ==
    IF roundsBelow(k, a, p, quotientExponent(a, p)) THEN k - 1 ELSE k

floorOfQuotient[x \in Int] ==
    LET k == x \div CELL_SIZE
    IN  IF x % CELL_SIZE = 0 THEN floorOnBorder(k, Abs(k), log2(Abs(k))) ELSE k

latToRow(lat) == floorOfQuotient[lat]

lngToCol(lng) == floorOfQuotient[lng]

latLngToCellCoord(lat, lng) == [i |-> latToRow(lat), j |-> lngToCol(lng)]

\* [[south, west], [north, east]]
cellToBounds(c) ==
    << <<c.i * CELL_SIZE, c.j * CELL_SIZE>>,
       <<(c.i + 1) * CELL_SIZE, (c.j + 1) * CELL_SIZE>> >>

\* The key `${c.i},${c.j}` is the pair of the two indices.
coordKey(c) == <<c.i, c.j>>

keyToCoord(key) == [i |-> key[1], j |-> key[2]]

\* Variant: || in place of &&.
isNearPlayer_Or(c, player) ==
    LET di == Abs(c.i - player.i)
        dj == Abs(c.j - player.j)
    IN  di <= INTERACTION_RADIUS \/ dj <= INTERACTION_RADIUS

isNearPlayer(c, player) ==
    LET di == Abs(c.i - player.i)
        dj == Abs(c.j - player.j)
    IN  di <= INTERACTION_RADIUS /\ dj <= INTERACTION_RADIUS

----------------------------------------------------------------------------
(* Persistence: a stored item is a text; JSON text is <<"json", value>>. *)

JSONstringify(v) == <<"json", v>>

\* The text of an item that JSON.parse rejects.
Garbage == <<"garbage">>

\* JSON.parse(text) of a text that parses.
JSONparse(text) == text[2]

\* JSON.parse(text) throws a SyntaxError.
parseThrows(text) == text[1] # "json"

\* localStorage: the four items whose keys carry the prefix of
\* STORAGE.VERSION ("wob_v1_playerCell", ...), and FOREIGN: a snapshot kept
\* under keys that carry another prefix or none.
NoStorage == [PLAYER |-> NULL, HELD |-> NULL, CELLS |-> NULL, MODE |-> NULL,
              FOREIGN |-> NULL]

\* The keys of a map, one after the other in a fixed order.
RECURSIVE keysInOrder(_)
keysInOrder(keys) ==
    IF keys = {} THEN << >>
    ELSE LET k == CHOOSE x \in keys : TRUE
         IN  <<k>> \o keysInOrder(keys \ {k})

\* The array of [key, value] pairs that saveState builds from cellStates.
\* cellStates is a map from keys to states, without the order in which a
\* Map iterates; the array lists the entries in a fixed order of their keys.
cellEntries(cs) ==
    LET keys == keysInOrder(DOMAIN cs)
    IN  [n \in 1..Len(keys) |-> <<keys[n], cs[keys[n]].value>>]

\* try { setItem(PLAYER, ...); setItem(HELD, ...); setItem(CELLS, ...) } catch {}
\* The items are written one after the other; the first setItem that throws
\* ends the function and leaves the items written before it in place.
\* s.writes is the number of setItem calls that localStorage still accepts
\* (NULL: all of them).
saveState(s) ==
    IF s.fault # "none" THEN s
    ELSE LET n == IF s.writes = NULL THEN 3 ELSE s.writes[1]
         IN  [s EXCEPT !.storage =
                 [@ EXCEPT !.PLAYER = IF n >= 1 THEN Some(JSONstringify(s.playerCell)) ELSE @,
                           !.HELD   = IF n >= 2 THEN Some(JSONstringify(s.heldToken)) ELSE @,
                           !.CELLS  = IF n >= 3
                                      THEN Some(JSONstringify(cellEntries(s.cellStates)))
                                      ELSE @],
                       !.writes = IF @ = NULL THEN NULL
                                  ELSE IF n >= 3 THEN Some(n - 3) ELSE Some(0)]

\* for (const [k, val] of arr) cellStates.set(k, { value: val })
\* An entry later in the array replaces an earlier one of the same key.
cellsOf(arr) ==
    [k \in {arr[n][1] : n \in 1..Len(arr)} |->
        LET last == CHOOSE n \in 1..Len(arr) :
                       /\ arr[n][1] = k
                       /\ \A later \in (n + 1)..Len(arr) : arr[later][1] # k
        IN  [value |-> arr[last][2]]]

\* catch { cellStates.clear(); heldToken = null; }
loadState_Catch(s) == [s EXCEPT !.cellStates = << >>, !.heldToken = NULL]

\* Variant: the held token is not read back.
loadState_SkipHeld(s) ==
    LET p   == s.storage.PLAYER
        h   == s.storage.HELD
        raw == s.storage.CELLS
        s1  == IF p # NULL THEN [s EXCEPT !.playerCell = JSONparse(p[1])] ELSE s
        s2  == s1
        s3  == [s2 EXCEPT !.cellStates = << >>]
        s4  == IF raw # NULL THEN [s3 EXCEPT !.cellStates = cellsOf(JSONparse(raw[1]))]
               ELSE s3
    IN  IF s.fault # "none" THEN loadState_Catch(s)
        ELSE IF p # NULL /\ parseThrows(p[1]) THEN loadState_Catch(s)
        ELSE IF h # NULL /\ parseThrows(h[1]) THEN loadState_Catch(s1)
        ELSE IF raw # NULL /\ parseThrows(raw[1]) THEN loadState_Catch(s3)
        ELSE s4

\* Variant: a snapshot kept under other keys is read when the program's own
\* items are absent.
loadState_AnyTag(s) ==
    LET p   == s.storage.PLAYER
        h   == s.storage.HELD
        raw == s.storage.CELLS
        s1  == IF p # NULL THEN [s EXCEPT !.playerCell = JSONparse(p[1])] ELSE s
        s2  == IF h # NULL THEN [s1 EXCEPT !.heldToken = JSONparse(h[1])] ELSE s1
        s3  == [s2 EXCEPT !.cellStates = << >>]
        s4  == IF raw # NULL THEN [s3 EXCEPT !.cellStates = cellsOf(JSONparse(raw[1]))]
               ELSE s3
        o   == s.storage.FOREIGN
    IN  IF s.fault # "none" THEN loadState_Catch(s)
        ELSE IF p = NULL /\ h = NULL /\ raw = NULL /\ o # NULL
        THEN [s EXCEPT !.playerCell = o[1].playerCell, !.heldToken = o[1].heldToken,
                       !.cellStates = o[1].cellStates]
        ELSE IF p # NULL /\ parseThrows(p[1]) THEN loadState_Catch(s)
        ELSE IF h # NULL /\ parseThrows(h[1]) THEN loadState_Catch(s1)
        ELSE IF raw # NULL /\ parseThrows(raw[1]) THEN loadState_Catch(s3)
        ELSE s4

\* The items are read one after the other: a missing item leaves its
\* variable alone, the first text that does not parse (or the first access
\* that throws) enters the catch block with the earlier items already loaded.
loadState(s) ==
    LET p   == s.storage.PLAYER
        h   == s.storage.HELD
        raw == s.storage.CELLS
        s1  == IF p # NULL THEN [s EXCEPT !.playerCell = JSONparse(p[1])] ELSE s
        s2  == IF h # NULL THEN [s1 EXCEPT !.heldToken = JSONparse(h[1])] ELSE s1
        s3  == [s2 EXCEPT !.cellStates = << >>]
        s4  == IF raw # NULL THEN [s3 EXCEPT !.cellStates = cellsOf(JSONparse(raw[1]))]
               ELSE s3
    IN  IF s.fault # "none" THEN loadState_Catch(s)
        ELSE IF p # NULL /\ parseThrows(p[1]) THEN loadState_Catch(s)
        ELSE IF h # NULL /\ parseThrows(h[1]) THEN loadState_Catch(s1)
        ELSE IF raw # NULL /\ parseThrows(raw[1]) THEN loadState_Catch(s3)
        ELSE s4

----------------------------------------------------------------------------
(* Base + getters/setters *)

\* luck(`cell:${i},${j}:token`): the deterministic oracle of _luck.ts, as a
\* percentage 0..99 of the seed's two indices.
luck(seed) == (11 * seed[1] + 19 * seed[2] + 39) % 100

\* Variant: the roll also depends on whether the hand is empty.
baseTokenValue_ByHand(c) ==
    LET roll == luck(<<c.i + (IF heldToken = NULL THEN 0 ELSE 1), c.j>>)
    IN  IF roll < BASE_TOKEN_PROBABILITY THEN 1 ELSE 0

baseTokenValue(c) ==
    LET roll == luck(<<c.i, c.j>>)
    IN  IF roll < BASE_TOKEN_PROBABILITY THEN 1 ELSE 0

\* Variant: tests the override's value for truthiness, so a stored 0 reads as base.
getCellValue_Truthy(cs, c) ==
    LET key == coordKey(c)
    IN  IF key \in DOMAIN cs /\ cs[key].value # 0 THEN cs[key].value
        ELSE baseTokenValue(c)

getCellValue(cs, c) ==
    LET key == coordKey(c)
    IN  IF key \in DOMAIN cs THEN cs[key].value ELSE baseTokenValue(c)

\* The observer of baseTokenValue.  While baseCalls is not NULL it holds, of
\* the calls made so far: results, the pairs <<key of c, value returned>>;
\* hands, the values heldToken had when a call was made; repeated, whether a
\* call was made for a coordinate that had been asked for before; loaded,
\* whether the page has been loaded again since.  returned is what the calls
\* of one place of the code returned.
noteCalls(s, returned) ==
    IF s.calls = NULL \/ returned = {} THEN s
    ELSE [s EXCEPT !.calls =
            [results  |-> @.results \cup returned,
             hands    |-> @.hands \cup {s.heldToken},
             repeated |-> @.repeated
                          \/ \E p \in returned : \E q \in @.results : q[1] = p[1],
             loaded   |-> @.loaded]]

\* refreshCellVisual(key), for each of keys: the rectangle and the label are
\* restyled by getCellValue(coord), which calls baseTokenValue when the cell
\* has no override.  Nothing else of the state changes.
refreshCellVisual(s, keys) ==
    noteCalls(s, {<<key, getCellValue(s.cellStates, keyToCoord(key))>> :
                     key \in {k \in keys \cap s.cellRects : k \notin DOMAIN s.cellStates}})

MapDelete(m, key) == [k \in DOMAIN m \ {key} |-> m[k]]

MapSet(m, key, v) == [k \in DOMAIN m \cup {key} |-> IF k = key THEN v ELSE m[k]]

\* Variant: deletes the entry when value is 0 rather than the base value.
setCellValue_ZeroDeletes(s, c, value) ==
    LET key == coordKey(c)
    IN  saveState(IF value = 0
                  THEN [s EXCEPT !.cellStates = MapDelete(@, key)]
                  ELSE [s EXCEPT !.cellStates = MapSet(@, key, [value |-> value])])

\* Variant: stores every value, the base value included.
setCellValue_AlwaysStore(s, c, value) ==
    saveState([s EXCEPT !.cellStates = MapSet(@, coordKey(c), [value |-> value])])

setCellValue(s, c, value) ==
    LET key  == coordKey(c)
        base == baseTokenValue(c)
        s0   == noteCalls(s, {<<key, base>>})
        s1   == IF value = base
                THEN [s0 EXCEPT !.cellStates = MapDelete(@, key)]
                ELSE [s0 EXCEPT !.cellStates = MapSet(@, key, [value |-> value])]
    IN  saveState(refreshCellVisual(s1, {key}))

----------------------------------------------------------------------------
(* Visible grid *)

shouldExistFor(bounds) ==
    LET minI == floorOfQuotient[bounds.south] - 1
        maxI == floorOfQuotient[bounds.north] + 1
        minJ == floorOfQuotient[bounds.west] - 1
        maxJ == floorOfQuotient[bounds.east] + 1
    IN  {<<i, j>> : i \in minI..maxI, j \in minJ..maxJ}

\* Variant: rectangles outside the window are not removed.
refreshVisibleGrid_NoDespawn(s, bounds) ==
    LET shouldExist == shouldExistFor(bounds)
        created     == shouldExist \ s.cellRects
    IN  [s EXCEPT !.cellRects   = s.cellRects \cup created,
                  !.activated   = created,
                  !.deactivated = {}]

\* Variant: every rectangle is removed and the grid is built anew.
refreshVisibleGrid_Rebuild(s, bounds) ==
    LET shouldExist == shouldExistFor(bounds)
    IN  [s EXCEPT !.cellRects   = shouldExist,
                  !.activated   = shouldExist,
                  !.deactivated = s.cellRects]

\* Variant: a newly created cell starts over from its base value.
refreshVisibleGrid_Reset(s, bounds) ==
    LET shouldExist == shouldExistFor(bounds)
        created     == shouldExist \ s.cellRects
    IN  [s EXCEPT !.cellRects   = shouldExist,
                  !.activated   = created,
                  !.deactivated = s.cellRects \ shouldExist,
                  !.cellStates  = [k \in DOMAIN @ \ created |-> @[k]]]

\* Variant: a despawned cell's state is forgotten (the memoryless grid).
refreshVisibleGrid_Forget(s, bounds) ==
    LET shouldExist == shouldExistFor(bounds)
        gone        == s.cellRects \ shouldExist
    IN  [s EXCEPT !.cellRects   = shouldExist,
                  !.activated   = shouldExist \ s.cellRects,
                  !.deactivated = gone,
                  !.cellStates  = [k \in DOMAIN @ \ gone |-> @[k]]]

refreshVisibleGrid(s, bounds) ==
    LET shouldExist == shouldExistFor(bounds)
        created     == shouldExist \ s.cellRects
        rects1      == s.cellRects \cup created
        removed     == {key \in rects1 : key \notin shouldExist}
    IN  refreshCellVisual([s EXCEPT !.cellRects   = rects1 \ removed,
                                    !.activated   = created,
                                    !.deactivated = removed], shouldExist)

----------------------------------------------------------------------------
(* Inventory + crafting *)

updateStatus(s, message) == [s EXCEPT !.status = message]

\* Variant: the player walks to the cell whose token they pick up.
pickUp_WalkTo(s, coord, cellValue) ==
    LET s1 == [s EXCEPT !.heldToken = Some(cellValue), !.playerCell = coord]
        s2 == setCellValue(s1, coord, 0)
        s3 == saveState(s2)
    IN  updateStatus(s3, <<"Picked up", cellValue>>)

\* heldToken = cellValue; setCellValue(coord, 0); saveState(); updateStatus(...)
pickUp(s, coord, cellValue) ==
    LET s1 == [s EXCEPT !.heldToken = Some(cellValue)]
        s2 == setCellValue(s1, coord, 0)
        s3 == saveState(s2)
    IN  updateStatus(s3, <<"Picked up", cellValue>>)

\* Variant: the hand is not emptied.
place_KeepHand(s, coord) ==
    LET placed == s.heldToken[1]
        s1 == setCellValue(s, coord, placed)
        s3 == saveState(s1)
    IN  updateStatus(s3, <<"Placed", placed>>)

\* Variant: the state is not saved after the hand is emptied.
place_NoFinalSave(s, coord) ==
    LET placed == s.heldToken[1]
        s1 == setCellValue(s, coord, placed)
        s2 == [s1 EXCEPT !.heldToken = NULL]
    IN  updateStatus(s2, <<"Placed", placed>>)

\* setCellValue(coord, placed); heldToken = null; saveState(); updateStatus(...)
place(s, coord) ==
    LET placed == s.heldToken[1]
        s1 == setCellValue(s, coord, placed)
        s2 == [s1 EXCEPT !.heldToken = NULL]
        s3 == saveState(s2)
    IN  updateStatus(s3, <<"Placed", placed>>)

\* Variant: the cell token is not consumed.
craft_KeepCell(s, coord) ==
    LET newValue == s.heldToken[1] * 2
        s2 == [s EXCEPT !.heldToken = Some(newValue)]
        s3 == saveState(s2)
    IN  updateStatus(s3, <<"Crafted", newValue>>)

\* setCellValue(coord, 0); heldToken = newValue; saveState(); updateStatus(...)
craft(s, coord) ==
    LET newValue == s.heldToken[1] * 2
        s1 == setCellValue(s, coord, 0)
        s2 == [s1 EXCEPT !.heldToken = Some(newValue)]
        s3 == saveState(s2)
    IN  updateStatus(s3, <<"Crafted", newValue>>)

\* Variant: a mismatch swaps the held token with the cell token.
mismatch_Swap(s, coord, cellValue) ==
    LET s1 == setCellValue(s, coord, s.heldToken[1])
        s2 == [s1 EXCEPT !.heldToken = Some(cellValue)]
        s3 == saveState(s2)
    IN  updateStatus(s3, <<"Mismatch", cellValue, s.heldToken[1]>>)

\* updateStatus(`Mismatch: cell ${cellValue}, hand ${heldToken}.`)
mismatch(s, coord, cellValue) ==
    updateStatus(s, <<"Mismatch", cellValue, s.heldToken[1]>>)

\* Variant: the pick-up test is cellValue >= 0.
handleCellClick_PickUpEmpty(s, coord) ==
    IF ~isNearPlayer(coord, s.playerCell)
    THEN updateStatus(s, <<"That cell is too far away.">>)
    ELSE LET cellValue == getCellValue(s.cellStates, coord)
         IN  IF s.heldToken = NULL
             THEN IF cellValue >= 0
                  THEN pickUp(s, coord, cellValue)
                  ELSE updateStatus(s, <<"No token to pick up.">>)
             ELSE IF cellValue = 0
                  THEN place(s, coord)
                  ELSE IF cellValue = s.heldToken[1]
                       THEN craft(s, coord)
                       ELSE mismatch(s, coord, cellValue)

\* The branch of handleCellClick for what getCellValue(coord) returned.
clickOn(s, coord, cellValue) ==
    IF s.heldToken = NULL
    THEN IF cellValue > 0
         THEN pickUp(s, coord, cellValue)
         ELSE updateStatus(s, <<"No token to pick up.">>)
    ELSE IF cellValue = 0
         THEN place(s, coord)
         ELSE IF cellValue = s.heldToken[1]
              THEN craft(s, coord)
              ELSE mismatch(s, coord, cellValue)

handleCellClick(s, coord) ==
    IF ~isNearPlayer(coord, s.playerCell)
    THEN updateStatus(s, <<"That cell is too far away.">>)
    ELSE LET cellValue == getCellValue(s.cellStates, coord)
         IN  clickOn(IF coordKey(coord) \in DOMAIN s.cellStates THEN s
                     ELSE noteCalls(s, {<<coordKey(coord), cellValue>>}),
                     coord, cellValue)

----------------------------------------------------------------------------
(* Player movement *)

\* Variant: the hand is emptied when the player moves.
movePlayerToCell_EmptyHand(s, next, bounds) ==
    IF next.i = s.playerCell.i /\ next.j = s.playerCell.j
    THEN s
    ELSE LET s1 == [s EXCEPT !.playerCell = next, !.heldToken = NULL]
             s2 == saveState(s1)
             s3 == refreshVisibleGrid(s2, bounds)
         IN  updateStatus(s3, <<"Moved.">>)

\* Variant: a move to the player's own cell is carried out like any other.
movePlayerToCell_NoTest(s, next, bounds) ==
    LET s1 == [s EXCEPT !.playerCell = next]
        s2 == saveState(s1)
        s3 == refreshVisibleGrid(s2, bounds)
    IN  updateStatus(s3, <<"Moved.">>)

\* if (next.i === playerCell.i && next.j === playerCell.j) return;
movePlayerToCell(s, next, bounds) ==
    IF next.i = s.playerCell.i /\ next.j = s.playerCell.j
    THEN s
    ELSE LET s1 == [s EXCEPT !.playerCell = next]
             s2 == saveState(s1)
             s3 == refreshVisibleGrid(s2, bounds)
         IN  updateStatus(s3, <<"Moved.">>)

----------------------------------------------------------------------------
(* Movement sources *)

\* ButtonMovementController.start(): n/s/w/e.onclick = () => doMove(...)
ButtonMovementController_start(s) == [s EXCEPT !.bound = TRUE]

\* ButtonMovementController.stop(): n/s/w/e.onclick = null
ButtonMovementController_stop(s) == [s EXCEPT !.bound = FALSE]

\* Variant: navigator.geolocation is used without the test for its presence.
GeoMovementController_start_NoTest(s) ==
    IF s.feed = "unsupported" THEN [s EXCEPT !.crashed = TRUE]
    ELSE [s EXCEPT !.watching = TRUE]

\* GeoMovementController.start(): if (!navigator.geolocation) return;
\* this.watchId = navigator.geolocation.watchPosition(success, () => {}, ...)
GeoMovementController_start(s) ==
    IF s.feed = "unsupported" THEN s
    ELSE [s EXCEPT !.watching = TRUE]

\* GeoMovementController.stop(): clearWatch(this.watchId); this.watchId = null
GeoMovementController_stop(s) == [s EXCEPT !.watching = FALSE]

\* controller.stop()
controller_stop(s) ==
    IF s.controller = "geolocation" THEN GeoMovementController_stop(s)
    ELSE IF s.controller = "buttons" THEN ButtonMovementController_stop(s)
    ELSE s

\* controller.start()
controller_start(s) ==
    IF s.controller = "geolocation" THEN GeoMovementController_start(s)
    ELSE ButtonMovementController_start(s)

\* try { localStorage.setItem(STORAGE.MODE, mode) } catch {}
storeMode(s, mode) ==
    IF s.fault # "none" \/ s.writes = Some(0) THEN s
    ELSE [s EXCEPT !.storage = [@ EXCEPT !.MODE = Some(mode)],
                   !.writes = IF @ = NULL THEN NULL ELSE Some(@[1] - 1)]

\* Variant: the previous controller is not stopped.
activateController_NoStop(s, mode) ==
    LET s2 == [s EXCEPT !.controller = mode]
        s3 == controller_start(s2)
    IN  IF s3.crashed THEN s3 ELSE storeMode(s3, mode)

\* if (controller) controller.stop(); controller = new ...; controller.start();
\* then the mode is stored.  An exception of start() leaves the function.
activateController(s, mode) ==
    LET s1 == controller_stop(s)
        s2 == [s1 EXCEPT !.controller = mode]
        s3 == controller_start(s2)
    IN  IF s3.crashed THEN s3 ELSE storeMode(s3, mode)

----------------------------------------------------------------------------
(* The program state as one record, and back *)

State ==
    [playerCell |-> playerCell, heldToken |-> heldToken, cellStates |-> cellStates,
     cellRects |-> cellRects, activated |-> activated, deactivated |-> deactivated,
     storage |-> storage, status |-> status,
     controller |-> controller, watching |-> watching, bound |-> bound,
     crashed |-> crashed, fault |-> storageFault, feed |-> geoFeed,
     writes |-> NULL, calls |-> baseCalls]

Becomes(s) ==
    /\ status' = s.status
    /\ playerCell' = s.playerCell
    /\ heldToken' = s.heldToken
    /\ cellStates' = s.cellStates
    /\ cellRects' = s.cellRects
    /\ activated' = s.activated
    /\ deactivated' = s.deactivated
    /\ storage' = s.storage
    /\ baseCalls' = s.calls

BecomesPage(s) ==
    /\ Becomes(s)
    /\ controller' = s.controller
    /\ watching' = s.watching
    /\ bound' = s.bound
    /\ crashed' = s.crashed

----------------------------------------------------------------------------
(* Inputs *)

StartCell == latLngToCellCoord(START_LAT, START_LNG)

\* The cells the player may stand on: at most MaxStep steps north or east of
\* the start cell.
PlayerRegion ==
    {[i |-> StartCell.i + di, j |-> StartCell.j + dj] :
        <<di, dj>> \in {d \in (0..MaxStep) \X (0..MaxStep) : d[1] + d[2] <= MaxStep}}

ViewAt(lat, lng) ==
    [south |-> lat - 1, north |-> lat + 1, west |-> lng - 1, east |-> lng + 1]

\* The view the map opens with: setView([START_LAT, START_LNG], 18).
StartView == ViewAt(START_LAT, START_LNG)

\* The views the map is panned to: the opening view and a view four cells to
\* the north-east of it.
Windows ==
    { StartView, ViewAt(START_LAT + 4 * CELL_SIZE, START_LNG + 4 * CELL_SIZE) }

\* Positions the geolocation feed reports: START itself, the south-west corner
\* of every cell of the player's region and the last unit of the start cell.
GeoFixes ==
    {<<START_LAT, START_LNG>>,
     <<(StartCell.i + 1) * CELL_SIZE - 1, (StartCell.j + 1) * CELL_SIZE - 1>>}
    \cup {<<c.i * CELL_SIZE, c.j * CELL_SIZE>> : c \in PlayerRegion}

Modes == {"geolocation", "buttons"}

----------------------------------------------------------------------------
(* Startup: the module's top-level code *)

SearchValues == {NULL, Some("geolocation"), Some("buttons"), Some("walk")}

\* const qsMode = raw === "geolocation" || raw === "buttons" ? raw : null
validMode(raw) ==
    IF raw # NULL /\ raw[1] \in Modes THEN raw ELSE NULL

\* const initialMode = qsMode ?? savedMode ?? "geolocation"
initialMode(qsModeRaw, savedModeRaw) ==
    IF validMode(qsModeRaw) # NULL THEN validMode(qsModeRaw)[1]
    ELSE IF validMode(savedModeRaw) # NULL THEN validMode(savedModeRaw)[1]
    ELSE "geolocation"

\* The state the declarations leave: the default player cell, an empty hand,
\* an empty store, no grid, no controller.  The observer of baseTokenValue
\* stands outside the page and lives on.
declared(st, fault, feed) ==
    [playerCell |-> StartCell, heldToken |-> NULL, cellStates |-> << >>,
     cellRects |-> {}, activated |-> {}, deactivated |-> {},
     storage |-> st, status |-> << >>,
     controller |-> "none", watching |-> FALSE, bound |-> FALSE,
     crashed |-> FALSE, fault |-> fault, feed |-> feed, writes |-> NULL,
     calls |-> IF baseCalls = NULL THEN NULL ELSE [baseCalls EXCEPT !.loaded = TRUE]]

\* The top-level code from the declarations to activateController(initialMode).
\* localStorage.getItem(STORAGE.MODE) stands outside any try: when it throws
\* the module ends there, before the handlers of moveend and of the movement
\* selector are registered and before the grid is built.
startup(st, search, fault, feed) ==
    LET s0 == declared(st, fault, feed)
        s1 == loadState(s0)
        s2 == refreshVisibleGrid(s1, StartView)
        s3 == updateStatus(s2, <<"Welcome back">>)
    IN  IF fault # "none" THEN [s0 EXCEPT !.crashed = TRUE]
        ELSE activateController(s3, initialMode(search, st.MODE))

----------------------------------------------------------------------------
(* Init: the state after the module's top-level code has run on an empty  *)
(* localStorage: loadState finds nothing, refreshVisibleGrid builds the    *)
(* grid and activateController("geolocation") stores the mode.             *)

Init ==
    /\ playerCell = StartCell
    /\ heldToken = NULL
    /\ cellStates = << >>
    /\ mapBounds = StartView
    /\ cellRects = shouldExistFor(StartView)
    /\ activated = shouldExistFor(StartView)
    /\ deactivated = {}
    /\ status = <<"Welcome back">>
    /\ controller = "geolocation"
    /\ storage = [NoStorage EXCEPT !.MODE = Some("geolocation")]
    /\ watching = TRUE
    /\ bound = FALSE
    /\ crashed = FALSE
    /\ storageFault = "none"
    /\ locationSearch = NULL
    /\ geoFeed = "ok"
    /\ delivered = NULL
    /\ reloading = FALSE
    /\ baseCalls = NULL

(* rect.on("click", () => handleCellClick(coord)) *)
CellClick(key) ==
    /\ key \in cellRects
    /\ Becomes(handleCellClick(State, keyToCoord(key)))
    /\ UNCHANGED <<mapBounds, sources, page, delivered>>

(* map.on("moveend", () => refreshVisibleGrid()) *)
MapMoveEnd(bounds) ==
    /\ ~crashed
    /\ mapBounds' = bounds
    /\ Becomes(refreshVisibleGrid(State, bounds))
    /\ UNCHANGED <<sources, page, delivered>>

(* Variant: doMove adds di to the column and dj to the row. *)
ButtonStep_Swapped(di, dj, bounds) ==
    /\ bound
    /\ LET next == [i |-> playerCell.i + dj, j |-> playerCell.j + di]
       IN  /\ next \in PlayerRegion
           /\ Becomes(movePlayerToCell(State, next, bounds))
    /\ mapBounds' = bounds
    /\ UNCHANGED <<sources, page, delivered>>

(* ButtonMovementController: n/s/w/e.onclick = () => doMove(di, dj) *)
ButtonStep(di, dj, bounds) ==
    /\ bound
    /\ LET next == [i |-> playerCell.i + di, j |-> playerCell.j + dj]
       IN  /\ next \in PlayerRegion
           /\ Becomes(movePlayerToCell(State, next, bounds))
    /\ mapBounds' = bounds
    /\ UNCHANGED <<sources, page, delivered>>

(* GeoMovementController: the watchPosition success callback, which calls *)
(* onMoveTo(cell) for every position.                                     *)
watchCallback(latitude, longitude, bounds) ==
    /\ watching
    /\ geoFeed = "ok"
    /\ LET cell == latLngToCellCoord(latitude, longitude)
       IN  /\ Becomes(movePlayerToCell(State, cell, bounds))
           /\ mapBounds' = IF cell = playerCell THEN mapBounds ELSE bounds
    /\ UNCHANGED <<sources, page>>

GeoPosition(latitude, longitude, bounds) ==
    /\ watchCallback(latitude, longitude, bounds)
    /\ UNCHANGED delivered

(* movementSelect.onchange = () => activateController(mode) *)
SelectMovement(mode) ==
    /\ ~crashed
    /\ mode # controller
    /\ BecomesPage(activateController(State, mode))
    /\ delivered' = NULL
    /\ UNCHANGED <<mapBounds, storageFault, locationSearch, geoFeed, reloading>>

Steps == {<<1, 0>>, <<-1, 0>>, <<0, -1>>, <<0, 1>>}

Next ==
    \/ \E key \in cellRects : CellClick(key)
    \/ \E bounds \in Windows : MapMoveEnd(bounds)
    \/ \E d \in Steps, bounds \in Windows : ButtonStep(d[1], d[2], bounds)
    \/ \E fix \in GeoFixes, bounds \in Windows : GeoPosition(fix[1], fix[2], bounds)
    \/ \E mode \in Modes : SelectMovement(mode)

Spec == Init /\ [][Next]_vars

----------------------------------------------------------------------------
(* The override store on its own: setCellValue called with any cell of two  *)
(* rows of the opening grid and any value, starting from the empty store.  *)

StoreCells == {key \in shouldExistFor(StartView) : key[1] >= StartCell.i}

StoreValues == {0, 1, 2}

StoreSet(key, value) ==
    /\ Becomes(setCellValue(State, keyToCoord(key), value))
    /\ UNCHANGED <<mapBounds, sources, page, delivered>>

StoreNext == \E key \in StoreCells, value \in StoreValues : StoreSet(key, value)

SpecStore == Init /\ [][StoreNext]_vars

----------------------------------------------------------------------------
(* The page's life cycle: the game played in the opening view, the page    *)
(* loaded again with any movement parameter, and New Game.                 *)

Faults == {"none", "denied"}

SnapshotItems == {"PLAYER", "HELD", "CELLS"}

\* What happened to the stored items while the page was closed: nothing, one
\* item removed, one item overwritten by a text that is not JSON, or the
\* program's items gone and a snapshot of another version left.
Damages ==
    {<<"none">>, <<"foreign">>}
    \cup {<<k, how>> : k \in SnapshotItems, how \in {"missing", "garbage"}}

\* A snapshot written under keys that do not carry the prefix wob_v1.
ForeignSnapshot ==
    [playerCell |-> [i |-> StartCell.i + 1, j |-> StartCell.j],
     heldToken |-> Some(4), cellStates |-> << >>]

damaged(st, damage) ==
    IF damage = <<"none">> THEN st
    ELSE IF damage = <<"foreign">>
         THEN [NoStorage EXCEPT !.FOREIGN = Some(ForeignSnapshot)]
    ELSE IF damage[2] = "missing" THEN [st EXCEPT ![damage[1]] = NULL]
    ELSE [st EXCEPT ![damage[1]] = Some(Garbage)]

(* The page is loaded: the top-level code runs on what localStorage holds. *)
Restart(search, damage, fault) ==
    /\ BecomesPage(startup(damaged(storage, damage), search, fault, geoFeed))
    /\ mapBounds' = StartView
    /\ locationSearch' = search
    /\ storageFault' = fault
    /\ delivered' = NULL
    /\ reloading' = FALSE
    /\ UNCHANGED geoFeed

\* newGameBtn.onclick: removeItem(PLAYER); removeItem(HELD); removeItem(CELLS)
newGame_clear(st) == [st EXCEPT !.PLAYER = NULL, !.HELD = NULL, !.CELLS = NULL]

(* New Game: the three removeItem calls stand outside any try, so with     *)
(* localStorage denied the handler ends at the first one and nothing       *)
(* changes; otherwise the items are removed and location.reload() is       *)
(* called.  The handler then returns: the page keeps running, with all its *)
(* handlers, until the document is replaced.                               *)
NewGame ==
    /\ storageFault = "none"
    /\ storage' = newGame_clear(storage)
    /\ reloading' = TRUE
    /\ UNCHANGED <<playerCell, heldToken, cellStates, cellRects, activated,
                   deactivated, status, mapBounds, sources, crashed, storageFault,
                   locationSearch, geoFeed, delivered, baseCalls>>

(* The reload that New Game asked for: the document is replaced and the    *)
(* top-level code runs on what localStorage holds by then.                 *)
Reload ==
    /\ reloading
    /\ Restart(locationSearch, <<"none">>, storageFault)

PersistNext ==
    \/ \E key \in cellRects : CellClick(key)
    \/ \E d \in Steps : ButtonStep(d[1], d[2], mapBounds)
    \/ \E fix \in GeoFixes : GeoPosition(fix[1], fix[2], mapBounds)
    \/ \E mode \in Modes : SelectMovement(mode)
    \/ \E search \in SearchValues : Restart(search, <<"none">>, "none")
    \/ NewGame
    \/ Reload

SpecPersist == Init /\ [][PersistNext]_vars

----------------------------------------------------------------------------
(* Loading what an earlier session left: the page comes up on a snapshot   *)
(* that a session wrote, and is then loaded again and again with           *)
(* localStorage readable or not and with the stored items as they were     *)
(* left or altered while the page was closed.                              *)

\* The cells of the opening grid that hold a base token.
TokenCells ==
    {key \in shouldExistFor(StartView) : baseTokenValue(keyToCoord(key)) = 1}

\* Hands and stores a session reaches in the opening view: nothing touched,
\* one base token picked up, all base tokens picked up and crafted together.
SessionStates ==
    {[heldToken |-> NULL, cellStates |-> << >>]}
    \cup {[heldToken |-> Some(1), cellStates |-> [k \in {key} |-> [value |-> 0]]] :
              key \in TokenCells}
    \cup {[heldToken |-> Some(Cardinality(TokenCells)),
           cellStates |-> [k \in TokenCells |-> [value |-> 0]]]}

\* What saveState and activateController leave in localStorage.
Snapshots ==
    {[NoStorage EXCEPT
        !.PLAYER = Some(JSONstringify(c)),
        !.HELD   = Some(JSONstringify(g.heldToken)),
        !.CELLS  = Some(JSONstringify(cellEntries(g.cellStates))),
        !.MODE   = Some(mode)] :
        c \in PlayerRegion, g \in SessionStates, mode \in Modes}

InitLoaded ==
    /\ baseCalls = NULL
    /\ \E st \in Snapshots :
           LET s == startup(st, NULL, "none", "ok")
           IN  /\ playerCell = s.playerCell
               /\ heldToken = s.heldToken
               /\ cellStates = s.cellStates
               /\ cellRects = s.cellRects
               /\ activated = s.activated
               /\ deactivated = s.deactivated
               /\ storage = s.storage
               /\ status = s.status
               /\ controller = s.controller
               /\ watching = s.watching
               /\ bound = s.bound
               /\ crashed = s.crashed
               /\ mapBounds = StartView
               /\ storageFault = "none"
               /\ locationSearch = NULL
               /\ geoFeed = "ok"
               /\ delivered = NULL
               /\ reloading = FALSE

DamageNext ==
    \/ \E damage \in Damages, fault \in Faults : Restart(NULL, damage, fault)
    \/ NewGame
    \/ Reload

SpecDamage == InitLoaded /\ [][DamageNext]_vars

----------------------------------------------------------------------------
(* The movement sources observed: the page comes up on an empty            *)
(* localStorage with the geolocation feed working, absent or refused, the  *)
(* game is played in the opening view, and every onMoveTo call of the Geo  *)
(* source is recorded.                                                     *)

Feeds == {"ok", "unsupported", "denied"}

InitMove ==
    /\ baseCalls = NULL
    /\ \E feed \in Feeds :
           LET s == startup(NoStorage, NULL, "none", feed)
           IN  /\ playerCell = s.playerCell
               /\ heldToken = s.heldToken
               /\ cellStates = s.cellStates
               /\ cellRects = s.cellRects
               /\ activated = s.activated
               /\ deactivated = s.deactivated
               /\ storage = s.storage
               /\ status = s.status
               /\ controller = s.controller
               /\ watching = s.watching
               /\ bound = s.bound
               /\ crashed = s.crashed
               /\ mapBounds = StartView
               /\ storageFault = "none"
               /\ locationSearch = NULL
               /\ geoFeed = feed
               /\ delivered = NULL
               /\ reloading = FALSE

\* The record of a call onMoveTo(cell): the cell, and whether the call before
\* it (of the same source) passed the same cell.
onMoveToCall(before, cell) ==
    Some([cell |-> cell, again |-> before # NULL /\ before[1].cell = cell])

(* The watchPosition success callback, with its onMoveTo call recorded. *)
GeoFeed(latitude, longitude, bounds) ==
    /\ watchCallback(latitude, longitude, bounds)
    /\ delivered' = onMoveToCall(delivered, latLngToCellCoord(latitude, longitude))

MoveNext ==
    \/ \E key \in cellRects : CellClick(key)
    \/ \E d \in Steps : ButtonStep(d[1], d[2], mapBounds)
    \/ \E fix \in GeoFixes : GeoFeed(fix[1], fix[2], mapBounds)
    \/ \E mode \in Modes : SelectMovement(mode)

SpecMove == InitMove /\ [][MoveNext]_vars

----------------------------------------------------------------------------
(* The D3.a/D3.b program (the second program of main.ts): the same grid,   *)
(* hand and crafting rules, movement by the four buttons only, no           *)
(* localStorage, and a cell's state dropped when the cell leaves the view.  *)

\* cellStates.set(key, { value }); refreshCellVisual(key)
setCellValue_D3b(s, c, value) ==
    [s EXCEPT !.cellStates = MapSet(@, coordKey(c), [value |-> value])]

\* Variant: the state of a despawned cell is kept.
refreshVisibleGrid_D3b_Keep(s, bounds) ==
    LET shouldExist == shouldExistFor(bounds)
        removed     == {key \in s.cellRects : key \notin shouldExist}
    IN  [s EXCEPT !.cellRects   = shouldExist,
                  !.activated   = shouldExist \ s.cellRects,
                  !.deactivated = removed]

\* As in D3.d, and for every removed rectangle: cellStates.delete(key)
refreshVisibleGrid_D3b(s, bounds) ==
    LET shouldExist == shouldExistFor(bounds)
        created     == shouldExist \ s.cellRects
        rects1      == s.cellRects \cup created
        removed     == {key \in rects1 : key \notin shouldExist}
    IN  [s EXCEPT !.cellRects   = rects1 \ removed,
                  !.activated   = created,
                  !.deactivated = removed,
                  !.cellStates  = [k \in DOMAIN @ \ removed |-> @[k]]]

handleCellClick_D3b(s, coord) ==
    IF ~isNearPlayer(coord, s.playerCell)
    THEN updateStatus(s, <<"That cell is too far away.">>)
    ELSE LET cellValue == getCellValue(s.cellStates, coord)
         IN  IF s.heldToken = NULL
             THEN IF cellValue > 0
                  THEN updateStatus(
                         setCellValue_D3b([s EXCEPT !.heldToken = Some(cellValue)], coord, 0),
                         <<"Picked up", cellValue>>)
                  ELSE updateStatus(s, <<"No token to pick up.">>)
             ELSE IF cellValue = 0
                  THEN updateStatus(
                         [setCellValue_D3b(s, coord, s.heldToken[1]) EXCEPT !.heldToken = NULL],
                         <<"Placed", s.heldToken[1]>>)
                  ELSE IF cellValue = s.heldToken[1]
                       THEN updateStatus(
                              [setCellValue_D3b(s, coord, 0) EXCEPT
                                  !.heldToken = Some(s.heldToken[1] * 2)],
                              <<"Crafted", s.heldToken[1] * 2>>)
                       ELSE updateStatus(s, <<"Mismatch", cellValue, s.heldToken[1]>>)

\* playerCell = {i + di, j + dj}; map.panTo(center); refreshVisibleGrid(); updateStatus(...)
movePlayer(s, di, dj, bounds) ==
    LET s1 == [s EXCEPT !.playerCell = [i |-> @.i + di, j |-> @.j + dj]]
        s2 == refreshVisibleGrid_D3b(s1, bounds)
    IN  updateStatus(s2, <<"Moved.">>)

\* The state after the top-level code: refreshVisibleGrid(); updateStatus(...)
Init_D3b ==
    /\ playerCell = StartCell
    /\ heldToken = NULL
    /\ cellStates = << >>
    /\ mapBounds = StartView
    /\ cellRects = shouldExistFor(StartView)
    /\ activated = shouldExistFor(StartView)
    /\ deactivated = {}
    /\ status = <<"Use the movement buttons to explore.">>
    /\ controller = "none"
    /\ storage = NoStorage
    /\ watching = FALSE
    /\ bound = TRUE
    /\ crashed = FALSE
    /\ storageFault = "none"
    /\ locationSearch = NULL
    /\ geoFeed = "ok"
    /\ delivered = NULL
    /\ reloading = FALSE
    /\ baseCalls = NULL

\* The number of cells of the view the player changes before the view moves
\* on: farming makes tokens without end, so the exploration is cut there.
MaxStored == 2

(* rect.on("click", () => handleCellClick(coord)) *)
CellClick_D3b(key) ==
    /\ key \in cellRects
    /\ Cardinality(DOMAIN handleCellClick_D3b(State, keyToCoord(key)).cellStates) <= MaxStored
    /\ Becomes(handleCellClick_D3b(State, keyToCoord(key)))
    /\ UNCHANGED <<mapBounds, sources, page, delivered>>

(* map.on("moveend", () => { refreshVisibleGrid(); }) *)
MapMoveEnd_D3b(bounds) ==
    /\ mapBounds' = bounds
    /\ Becomes(refreshVisibleGrid_D3b(State, bounds))
    /\ UNCHANGED <<sources, page, delivered>>

(* move-n/s/w/e.onclick = () => movePlayer(di, dj) *)
MovePlayer_D3b(di, dj, bounds) ==
    /\ [i |-> playerCell.i + di, j |-> playerCell.j + dj] \in PlayerRegion
    /\ Becomes(movePlayer(State, di, dj, bounds))
    /\ mapBounds' = bounds
    /\ UNCHANGED <<sources, page, delivered>>

Next_D3b ==
    \/ \E key \in cellRects : CellClick_D3b(key)
    \/ \E bounds \in Windows : MapMoveEnd_D3b(bounds)
    \/ \E d \in Steps, bounds \in Windows : MovePlayer_D3b(d[1], d[2], bounds)

Spec_D3b == Init_D3b /\ [][Next_D3b]_vars

----------------------------------------------------------------------------
(* Properties *)

\* Every cell that can be active in some view.
GridKeys == UNION {shouldExistFor(w) : w \in Windows}

valueAt(cs, key) == getCellValue(cs, keyToCoord(key))

Max(a, b) == IF a >= b THEN a ELSE b

Chebyshev(key, player) == Max(Abs(key[1] - player.i), Abs(key[2] - player.j))

RECURSIVE SumOver(_, _)
SumOver(f, keys) ==
    IF keys = {} THEN 0
    ELSE LET k == CHOOSE x \in keys : TRUE
         IN  f[k] + SumOver(f, keys \ {k})

heldValue == IF heldToken = NULL THEN 0 ELSE heldToken[1]

RECURSIVE IsPowerOfTwo(_)
IsPowerOfTwo(n) ==
    IF n <= 1 THEN n = 1
    ELSE n % 2 = 0 /\ IsPowerOfTwo(n \div 2)

OthersUnchanged(key) ==
    \A other \in GridKeys \ {key} : valueAt(cellStates', other) = valueAt(cellStates, other)

RefreshStep ==
    \/ \E bounds \in Windows : MapMoveEnd(bounds)
    \/ \E d \in Steps, bounds \in Windows : ButtonStep(d[1], d[2], bounds)
    \/ \E fix \in GeoFixes, bounds \in Windows : GeoPosition(fix[1], fix[2], bounds)

\* C1: visibility independence.  A step that recomputes the visible grid (a
\* moveend, or a player move) leaves the override store cellStates as it was,
\* and the value of a cell that is inactive before or after a step, i.e. a
\* cell that is being deactivated, stays inactive or is being reactivated, is
\* the same after the step as before it; so a cell comes back with the value
\* it left with.
C1_VisibilityIndependence ==
    [][ \/ cellStates' = cellStates
        \/ /\ ~RefreshStep
           /\ \A key \in GridKeys :
                 (key \notin cellRects \/ key \notin cellRects')
                    => valueAt(cellStates', key) = valueAt(cellStates, key) ]_vars

\* A cell the player changed has been deactivated and was activated again by
\* the last recomputation (no click has happened since the last move).
C1_Witness ==
    /\ status = <<"Moved.">>
    /\ \E key \in activated : key \in DOMAIN cellStates

\* C2: no farming.  In every state reached from the fresh start by clicks,
\* moves and viewport changes, the values of all cells plus the held token
\* add up to the sum of the cells' base values.
C2_TokenValueConserved ==
    SumOver([key \in GridKeys |-> valueAt(cellStates, key)], GridKeys) + heldValue
        = SumOver([key \in GridKeys |-> baseTokenValue(keyToCoord(key))], GridKeys)

\* A token was crafted, the player has moved away from the start and the
\* viewport has changed.
C2_Witness ==
    /\ heldToken = Some(2)
    /\ playerCell # StartCell
    /\ deactivated # {}

\* C3: override minimality.  After any sequence of setCellValue calls from the
\* empty store, no stored entry holds the base value of its cell.
C3_OverrideMinimality ==
    \A key \in DOMAIN cellStates :
        cellStates[key].value # baseTokenValue(keyToCoord(key))

\* The store holds an emptied base-token cell and a filled base-empty cell.
C3_Witness ==
    /\ \E key \in DOMAIN cellStates :
          baseTokenValue(keyToCoord(key)) = 1 /\ cellStates[key].value = 0
    /\ \E key \in DOMAIN cellStates :
          baseTokenValue(keyToCoord(key)) = 0 /\ cellStates[key].value = 2

\* C4: store read/write law.  getCellValue returns the stored override when
\* there is one and the base value otherwise; right after setCellValue(c, v),
\* getCellValue(c) is v, also when v is the base value, and every other cell
\* reads as before.
C4_StoreReadWrite ==
    /\ [](\A key \in StoreCells :
            valueAt(cellStates, key) =
               IF key \in DOMAIN cellStates THEN cellStates[key].value
               ELSE baseTokenValue(keyToCoord(key)))
    /\ [][ \A key \in StoreCells, value \in StoreValues :
              StoreSet(key, value) =>
                 /\ valueAt(cellStates', key) = value
                 /\ \A other \in StoreCells \ {key} :
                       valueAt(cellStates', other) = valueAt(cellStates, other) ]_vars

\* setCellValue has run (a snapshot is stored) and the store is empty: the last
\* call wrote a base value, which removed the entry or stored none.
C4_Witness ==
    /\ storage.CELLS # NULL
    /\ cellStates = << >>

\* C5: pick up.  A click on a cell within the interaction radius, with the hand
\* empty and the cell holding v > 0, leaves heldToken = v and the cell empty,
\* and changes no other cell.
C5_PickUp ==
    [][ \A key \in cellRects :
          ( /\ Chebyshev(key, playerCell) <= INTERACTION_RADIUS
            /\ heldToken = NULL
            /\ valueAt(cellStates, key) > 0
            /\ CellClick(key) )
          => /\ heldToken' = Some(valueAt(cellStates, key))
             /\ valueAt(cellStates', key) = 0
             /\ OthersUnchanged(key) ]_vars

\* A crafted token of value 2 has just been picked up from a cell.
C5_Witness ==
    /\ status = <<"Picked up", 2>>
    /\ heldToken = Some(2)

\* C6: drop.  A click on a cell within the interaction radius, with the hand
\* holding h and the cell empty, leaves the cell holding h and the hand empty,
\* and changes no other cell; and a click that empties the hand was a click on
\* an empty cell.
C6_Drop ==
    [][ \A key \in cellRects :
          /\ ( /\ Chebyshev(key, playerCell) <= INTERACTION_RADIUS
               /\ heldToken # NULL
               /\ valueAt(cellStates, key) = 0
               /\ CellClick(key) )
             => /\ valueAt(cellStates', key) = heldToken[1]
                /\ heldToken' = NULL
                /\ OthersUnchanged(key)
          /\ (heldToken # NULL /\ heldToken' = NULL /\ CellClick(key))
             => valueAt(cellStates, key) = 0 ]_vars

\* A token of value 2 has just been placed into a cell.
C6_Witness ==
    /\ status = <<"Placed", 2>>
    /\ heldToken = NULL
    /\ \E key \in DOMAIN cellStates : cellStates[key].value = 2

\* C7: craft.  A click on a cell within the interaction radius, with the hand
\* holding h and the cell holding h too, leaves the cell empty and the hand
\* holding 2h, and changes no other cell.
C7_Craft ==
    [][ \A key \in cellRects :
          ( /\ Chebyshev(key, playerCell) <= INTERACTION_RADIUS
            /\ heldToken # NULL
            /\ valueAt(cellStates, key) > 0
            /\ valueAt(cellStates, key) = heldToken[1]
            /\ CellClick(key) )
          => /\ valueAt(cellStates', key) = 0
             /\ heldToken' = Some(2 * heldToken[1])
             /\ OthersUnchanged(key) ]_vars

\* Two tokens of value 1 have just been crafted into one of value 2.
C7_Witness ==
    /\ status = <<"Crafted", 2>>
    /\ heldToken = Some(2)

\* C8: invalid crafting transitions change nothing.  A click on an in-range
\* cell with an empty hand and an empty cell, or with a held token and a cell
\* token of another value, leaves heldToken, every cell value, the override
\* store, the player coordinate and the stored snapshot as they were.
C8_InvalidTransitionNoChange ==
    [][ \/ /\ UNCHANGED <<heldToken, cellStates, playerCell, storage>>
           /\ \A other \in GridKeys :
                 valueAt(cellStates', other) = valueAt(cellStates, other)
        \/ \A key \in cellRects :
              ~ ( /\ Chebyshev(key, playerCell) <= INTERACTION_RADIUS
                  /\ \/ heldToken = NULL /\ valueAt(cellStates, key) = 0
                     \/ /\ heldToken # NULL
                        /\ valueAt(cellStates, key) # 0
                        /\ valueAt(cellStates, key) # heldToken[1]
                  /\ CellClick(key) ) ]_vars

\* A click on a cell of value 1 with a token of value 2 in the hand has just
\* been rejected.
C8_Witness ==
    /\ status = <<"Mismatch", 1, 2>>
    /\ heldToken = Some(2)

\* C9: interaction range.  A click on a cell whose Chebyshev distance from the
\* player is greater than INTERACTION_RADIUS leaves the override store and
\* heldToken as they were; so a click changes them only within the radius.
C9_OutOfRangeNoChange ==
    [][ \/ UNCHANGED <<cellStates, heldToken>>
        \/ \A key \in cellRects :
              ~ (Chebyshev(key, playerCell) > INTERACTION_RADIUS /\ CellClick(key)) ]_vars

\* A click has just been rejected as too far while the player holds a token
\* and active cells lie at distance radius + 1 along a single axis.
C9_Witness ==
    /\ status = <<"That cell is too far away.">>
    /\ heldToken # NULL
    /\ \E key \in cellRects :
          /\ Chebyshev(key, playerCell) = INTERACTION_RADIUS + 1
          /\ Abs(key[1] - playerCell.i) <= INTERACTION_RADIUS
    /\ \E key \in cellRects :
          /\ Chebyshev(key, playerCell) = INTERACTION_RADIUS + 1
          /\ Abs(key[2] - playerCell.j) <= INTERACTION_RADIUS

\* C10: token values are powers of two.  In every state reached from the fresh
\* start, every cell value is 0 or a power of two, and heldToken is null or a
\* positive power of two.
C10_PowersOfTwo ==
    /\ \A key \in GridKeys \cup DOMAIN cellStates :
          valueAt(cellStates, key) = 0 \/ IsPowerOfTwo(valueAt(cellStates, key))
    /\ heldToken = NULL \/ IsPowerOfTwo(heldToken[1])

\* A crafted token lies in a cell while the player holds another token.
C10_Witness ==
    /\ heldToken = Some(1)
    /\ \E key \in DOMAIN cellStates : cellStates[key].value = 2

----------------------------------------------------------------------------
(* Persistence *)

\* The state the page comes up in when it is loaded without a movement
\* parameter right after the state s has been saved and its mode stored.
restored(s) ==
    startup(storeMode(saveState(s), s.controller).storage, NULL, "none", s.feed)

\* C11: Persistence round trip.  From every reachable state in which the
\* page runs, saving the state and the mode and loading the page again without
\* a movement parameter restores the player cell, the held token, the
\* override entries and the movement mode of that state.
C11_PersistenceRoundTrip ==
    ~crashed =>
        LET r == restored(State)
        IN  /\ r.playerCell = playerCell
            /\ r.heldToken = heldToken
            /\ r.cellStates = cellStates
            /\ r.controller = controller

\* A page that was loaded without a movement parameter and came up with a
\* moved player, a held token, an override and the buttons mode.
C11_Witness ==
    /\ status = <<"Welcome back">>
    /\ locationSearch = NULL
    /\ playerCell # StartCell
    /\ heldToken # NULL
    /\ cellStates # << >>
    /\ controller = "buttons"
    /\ restored(State).heldToken = heldToken

\* The three items saveState writes for the state s.
snapshotOf(s) ==
    [PLAYER |-> Some(JSONstringify(s.playerCell)),
     HELD   |-> Some(JSONstringify(s.heldToken)),
     CELLS  |-> Some(JSONstringify(cellEntries(s.cellStates)))]

stored(st) == [PLAYER |-> st.PLAYER, HELD |-> st.HELD, CELLS |-> st.CELLS]

\* C12: Snapshot after every mutation.  With localStorage writable, every
\* step of a handler that changes the player cell, the held token or the
\* override store (a pick-up, a drop, a craft, a move) ends with the stored
\* player, held token and cell list equal to the state in memory.
C12_SnapshotAfterMutation ==
    [][(playerCell' # playerCell \/ heldToken' # heldToken \/ cellStates' # cellStates)
         => stored(storage') = snapshotOf(State')]_vars

\* The player has moved and then dropped a crafted token: the stored items
\* show the empty hand and the cell that holds the token.
C12_Witness ==
    /\ status = <<"Placed", 2>>
    /\ playerCell # StartCell
    /\ heldToken = NULL
    /\ cellStates # << >>
    /\ stored(storage) = snapshotOf(State)

\* The state the declarations give: the default start cell, an empty hand and
\* an empty store.
defaultState ==
    /\ playerCell = StartCell
    /\ heldToken = NULL
    /\ cellStates = << >>

\* One of the three stored items is absent or is not JSON.
brokenSnapshot(st) ==
    \E k \in SnapshotItems : st[k] = NULL \/ st[k] = Some(Garbage)

\* C13: Corrupt or missing snapshot falls back to defaults.  When the page
\* has loaded on stored items of which one (player, held token or cell list)
\* is missing or unparseable, it is in the default state: the default start
\* cell, an empty hand and an empty store.
C13_BrokenSnapshotGivesDefaults ==
    (~crashed /\ ~reloading /\ brokenSnapshot(storage)) => defaultState

\* C14: Reset.  New Game, from any reachable state, clears the stored
\* snapshot, and the page that comes up in the reload it asks for finds the
\* snapshot cleared and is in the default state in all four snapshot fields:
\* default start cell, empty hand, empty store and the default movement mode.
C14_ResetGivesDefaults ==
    [][/\ NewGame => stored(storage') = stored(NoStorage)
       /\ Reload =>
             /\ stored(storage') = stored(NoStorage)
             /\ defaultState'
             /\ controller' = initialMode(NULL, NULL)]_vars

\* C15: Persistence errors are never fatal.  When the accesses to
\* localStorage throw, the startup sequence still completes: the page runs
\* with its grid built and a movement source selected, and the player cell,
\* the hand and the store are the defaults.
C15_StorageFailureNotFatal ==
    storageFault # "none" =>
        /\ ~crashed
        /\ cellRects = shouldExistFor(StartView)
        /\ controller \in Modes
        /\ defaultState

\* C16: Schema tag.  The program's tag is the prefix wob_v1 of its item
\* keys.  When localStorage holds a snapshot under keys that carry another
\* prefix or none, and none under the program's own keys, the page loads as on
\* no snapshot: default start cell, empty hand, empty store; the stored
\* player, held token and cell entries are ignored.
C16_OtherTagIsNoSnapshot ==
    (~crashed /\ storage.FOREIGN # NULL /\ stored(storage) = stored(NoStorage))
        => defaultState

\* A page that has loaded on a snapshot of another tag only, whose player
\* cell and held token are not the defaults.
C16_Witness ==
    /\ ~crashed
    /\ status = <<"Welcome back">>
    /\ storage.FOREIGN = Some(ForeignSnapshot)
    /\ ForeignSnapshot.playerCell # StartCell
    /\ stored(storage) = stored(NoStorage)
    /\ defaultState

----------------------------------------------------------------------------
(* Viewport and movement sources *)

\* C17: Viewport idempotence.  A refreshVisibleGrid that reads the same
\* window as the refreshVisibleGrid before it creates no rectangle and
\* removes none: the active set cellRects stays as it is.
C17_ViewportIdempotence ==
    [][(mapBounds' = mapBounds /\ MapMoveEnd(mapBounds))
         => /\ activated' = {}
            /\ deactivated' = {}
            /\ cellRects' = cellRects]_vars

\* After the map was panned away and the grid recomputed twice for the new
\* window, before any move of the player: the second recomputation created
\* and removed nothing.
C17_Witness ==
    /\ mapBounds # StartView
    /\ playerCell = StartCell
    /\ status # <<"Moved.">>
    /\ activated = {}
    /\ deactivated = {}
    /\ cellRects = shouldExistFor(mapBounds)

\* C18 as claimed: Tracked coalescing in the source.  The Geo source calls
\* onMoveTo only for a cell that differs from the cell of its previous call.
C18_SourceCoalesces ==
    delivered # NULL => ~delivered[1].again

\* C18, amended: the Geo source calls onMoveTo for every position; a position
\* in the player's current cell leaves the player cell, the hand, the store,
\* the stored snapshot, the grid and the status as they are.
C18_SameCellUpdateIgnored ==
    [][\A fix \in GeoFixes :
          (latLngToCellCoord(fix[1], fix[2]) = playerCell
             /\ GeoFeed(fix[1], fix[2], mapBounds))
          => /\ delivered' # NULL
             /\ delivered'[1].cell = playerCell
             /\ UNCHANGED <<playerCell, heldToken, cellStates, storage, cellRects,
                            activated, deactivated, status, mapBounds>>]_vars

\* The source has passed the player's cell twice in a row, after a click: the
\* second call left the click's status and the grid's last changes in place.
C18_Witness ==
    /\ delivered # NULL
    /\ delivered[1].again
    /\ delivered[1].cell = playerCell
    /\ status = <<"Picked up", 1>>
    /\ activated # {}

\* At most one source is started, it is the one of the current controller,
\* and the stored mode is the controller's.
oneSourceStarted ==
    /\ ~(watching /\ bound)
    /\ watching => controller = "geolocation"
    /\ bound => controller = "buttons"
    /\ storage.MODE = Some(controller)

\* The step is a position update of the Geo source while it is the current
\* controller, or a button step while the buttons source is.
stepOfCurrentSource ==
    \/ /\ controller = "geolocation"
       /\ \E fix \in GeoFixes : GeoFeed(fix[1], fix[2], mapBounds)
    \/ /\ controller = "buttons"
       /\ \E d \in Steps : ButtonStep(d[1], d[2], mapBounds)

\* C19: Source switching.  activateController stops the previous source
\* before it starts the new one: at every moment at most one source is started
\* (the watch of the Geo source or the handlers of the buttons, never both),
\* the stored mode is the selected one, every selection leaves exactly the
\* selected source's registration behind, and the player cell only changes by
\* an update or step of the source that is the current controller.
C19_SourceSwitching ==
    /\ [](oneSourceStarted)
    /\ [][/\ \A mode \in Modes : SelectMovement(mode) =>
                /\ controller' = mode
                /\ storage'.MODE = Some(mode)
                /\ bound' = (mode = "buttons")
                /\ watching' => mode = "geolocation"
          /\ playerCell' # playerCell => stepOfCurrentSource]_vars

\* The page came up with the Geo source, the player switched to the buttons
\* and a button step has brought them (back) to the start cell: the watch is
\* released, the handlers are set and the stored mode is "buttons".
C19_Witness ==
    /\ controller = "buttons"
    /\ bound
    /\ ~watching
    /\ geoFeed = "ok"
    /\ storage.MODE = Some("buttons")
    /\ delivered = NULL
    /\ status = <<"Moved.">>
    /\ playerCell = StartCell

\* C20: Location unavailable is not fatal.  With the geolocation feed absent
\* or refused, the page has come up and keeps running, no onMoveTo call is
\* ever made by the Geo source, selecting the Geo source changes neither the
\* player cell nor the hand nor the store, the player cell does not change
\* while the Geo source is selected, and selecting the buttons sets their
\* handlers.
C20_LocationUnavailable ==
    /\ [](geoFeed # "ok" =>
            /\ ~crashed
            /\ cellRects = shouldExistFor(mapBounds)
            /\ controller \in Modes
            /\ delivered = NULL)
    /\ [][geoFeed # "ok" =>
            /\ SelectMovement("geolocation") =>
                 UNCHANGED <<playerCell, heldToken, cellStates, cellRects, status>>
            /\ controller = "geolocation" => playerCell' = playerCell
            /\ SelectMovement("buttons") => bound']_vars

\* With no geolocation in the browser the player has switched to the buttons,
\* moved, crafted a token of value 2 and selected the Geo source again.
C20_Witness ==
    /\ geoFeed = "unsupported"
    /\ controller = "geolocation"
    /\ ~watching
    /\ playerCell # StartCell
    /\ status = <<"Crafted", 2>>
    /\ heldToken = Some(2)

----------------------------------------------------------------------------
(* Base values, the active set and movement *)

(* Base values observed: the page is opened with ?movement=buttons on an   *)
(* empty localStorage, the game is played in the opening view with the     *)
(* buttons, the page is loaded again and New Game is pressed, and every    *)
(* call of baseTokenValue is noted with what it returned.                  *)

\* The state after the top-level code; the first refreshVisibleGrid has asked
\* for the base value of every cell of the grid, with an empty hand.
InitBase ==
    /\ playerCell = StartCell
    /\ heldToken = NULL
    /\ cellStates = << >>
    /\ mapBounds = StartView
    /\ cellRects = shouldExistFor(StartView)
    /\ activated = shouldExistFor(StartView)
    /\ deactivated = {}
    /\ status = <<"Welcome back">>
    /\ controller = "buttons"
    /\ storage = [NoStorage EXCEPT !.MODE = Some("buttons")]
    /\ watching = FALSE
    /\ bound = TRUE
    /\ crashed = FALSE
    /\ storageFault = "none"
    /\ locationSearch = Some("buttons")
    /\ geoFeed = "ok"
    /\ delivered = NULL
    /\ reloading = FALSE
    /\ baseCalls = [results  |-> {<<key, baseTokenValue(keyToCoord(key))>> :
                                    key \in shouldExistFor(StartView)},
                    hands    |-> {NULL},
                    repeated |-> FALSE,
                    loaded   |-> FALSE]

BaseNext ==
    \/ \E key \in cellRects : CellClick(key)
    \/ \E d \in Steps : ButtonStep(d[1], d[2], mapBounds)
    \/ Restart(Some("buttons"), <<"none">>, "none")
    \/ NewGame
    \/ Reload

SpecBase == InitBase /\ [][BaseNext]_vars

CellsAround ==
    LET rows == {key[1] : key \in GridKeys}
        cols == {key[2] : key \in GridKeys}
    IN  {<<i + di, j + dj>> : <<i, j>> \in rows \X cols, <<di, dj>> \in (-3..3) \X (-3..3)}

\* The cell's rectangle and the window share at least a point.
overlaps(key, bounds) ==
    LET b == cellToBounds(keyToCoord(key))
    IN  /\ b[1][1] <= bounds.north
        /\ b[2][1] >= bounds.south
        /\ b[1][2] <= bounds.east
        /\ b[2][2] >= bounds.west

\* The rows and columns from minI to maxI and minJ to maxJ: the cells of the
\* window's south-west and north-east corners, with one cell of padding.
paddedRectangle(bounds) ==
    LET minI == latToRow(bounds.south) - 1
        maxI == latToRow(bounds.north) + 1
        minJ == lngToCol(bounds.west) - 1
        maxJ == lngToCol(bounds.east) + 1
    IN  {key \in CellsAround :
            minI <= key[1] /\ key[1] <= maxI /\ minJ <= key[2] /\ key[2] <= maxJ}

\* C22: Active set is the padded rectangle.  After every refreshVisibleGrid
\* the keys of cellRects are exactly the cells of the padded rectangle of the
\* window, every cell that overlaps the window is among them, and a
\* recomputation that changes the active set removes exactly the previously
\* active cells outside the rectangle and creates exactly the missing ones.
C22_ActiveSetIsPaddedRectangle ==
    /\ [](/\ cellRects = paddedRectangle(mapBounds)
          /\ \A key \in CellsAround : overlaps(key, mapBounds) => key \in cellRects)
    /\ [][cellRects' # cellRects =>
            /\ deactivated' = cellRects \ paddedRectangle(mapBounds')
            /\ activated' = paddedRectangle(mapBounds') \ cellRects]_vars

\* The map was panned away from the opening view and back: the cells of the
\* far view were removed and the cells of the opening view are active again.
C22_Witness ==
    /\ mapBounds = StartView
    /\ deactivated # {}
    /\ deactivated \cap cellRects = {}
    /\ activated = cellRects
    /\ cellRects = paddedRectangle(StartView)

\* C23: Manual stepping.  The four buttons step by (+1,0), (-1,0), (0,-1) and
\* (0,+1); while the buttons source is started, a step with delta d moves the
\* player by one call of movePlayerToCell to the cell at exactly d from the
\* cell they were on: the player cell, the status "Moved." and the saved player
\* are those of that one call.
C23_ManualStepping ==
    /\ [](Steps = {<<1, 0>>, <<-1, 0>>, <<0, 1>>, <<0, -1>>})
    /\ [][\A d \in Steps, bounds \in Windows :
            ButtonStep(d[1], d[2], bounds) =>
              /\ controller = "buttons"
              /\ playerCell' = [i |-> playerCell.i + d[1], j |-> playerCell.j + d[2]]
              /\ status' = <<"Moved.">>
              /\ storage'.PLAYER = Some(JSONstringify(playerCell'))]_vars

\* The buttons source is started and a step north has moved the player from
\* the start cell.
C23_Witness ==
    /\ bound
    /\ controller = "buttons"
    /\ delivered = NULL
    /\ status = <<"Moved.">>
    /\ playerCell = [i |-> StartCell.i + 1, j |-> StartCell.j]
    /\ heldToken = NULL
    /\ cellStates = << >>

\* A step of a movement source: a button step or a position of the Geo feed.
MovementStep ==
    \/ \E d \in Steps, bounds \in Windows : ButtonStep(d[1], d[2], bounds)
    \/ \E fix \in GeoFixes, bounds \in Windows : GeoPosition(fix[1], fix[2], bounds)

\* C24: The player coordinate is mutated only by movement.  After startup a
\* step that changes playerCell is a step of a movement source, carried out by
\* movePlayerToCell; clicks on cells and recomputations of the grid on moveend
\* leave playerCell as it is.
C24_PlayerMovedOnlyByMovement ==
    [][\/ playerCell' = playerCell
       \/ /\ MovementStep
          /\ \E bounds \in Windows :
                playerCell' = movePlayerToCell(State, playerCell', bounds).playerCell
          /\ status' = <<"Moved.">>]_vars

\* The player stands away from the start cell after clicks (a token was
\* picked up and put down) and after the map was panned to the far view.
C24_Witness ==
    /\ playerCell # StartCell
    /\ status = <<"Placed", 1>>
    /\ mapBounds # StartView
    /\ activated = {}

\* C26: Movement leaves inventory and cells untouched.  Every step of a
\* movement source, to an adjacent cell or not, leaves heldToken and
\* cellStates as they are, and the held token and the cell list it saves are
\* those of before the step.
C26_MovementKeepsInventoryAndCells ==
    [][\/ /\ heldToken' = heldToken
          /\ cellStates' = cellStates
          /\ playerCell' # playerCell =>
                /\ storage'.HELD = Some(JSONstringify(heldToken))
                /\ storage'.CELLS = Some(JSONstringify(cellEntries(cellStates)))
       \/ ~MovementStep]_vars

\* The Geo feed, whose positions jump between cells that are not adjacent, has
\* moved the player with a token in the hand and overrides in the store.
C26_Witness ==
    /\ status = <<"Moved.">>
    /\ playerCell = [i |-> StartCell.i, j |-> StartCell.j + 1]
    /\ storage.PLAYER = Some(JSONstringify(playerCell))
    /\ delivered = NULL
    /\ controller = "geolocation"
    /\ heldToken = Some(2)
    /\ Cardinality(DOMAIN cellStates) = 2

----------------------------------------------------------------------------
(* The D3.a/D3.b program *)

\* C25: D3.b memoryless cells.  In the D3.a/D3.b program only active cells
\* have a stored state; a cell that leaves the visible rectangle in a
\* recomputation of the grid loses its stored state, and a cell that enters
\* the rectangle reads as its base value, whatever was done to it before.
C25_MemorylessCells ==
    /\ [](DOMAIN cellStates \subseteq cellRects)
    /\ [][\A key \in GridKeys :
            /\ (key \in cellRects /\ key \notin cellRects')
                  => key \notin DOMAIN cellStates'
            /\ (key \notin cellRects /\ key \in cellRects')
                  => valueAt(cellStates', key) = baseTokenValue(keyToCoord(key))]_vars

\* The opening view is back, all of it newly spawned and every cell at its
\* base value, while the hand holds a token crafted from two base tokens: the
\* cells that were emptied have come back with their base tokens.
C25_Witness ==
    /\ mapBounds = StartView
    /\ activated = shouldExistFor(StartView)
    /\ cellStates = << >>
    /\ heldToken = Some(2)

----------------------------------------------------------------------------
(* Writes that fail in the middle of a handler: the game played in the     *)
(* opening view with localStorage refusing setItem from some call of a     *)
(* click's handler on (the quota is exhausted, the storage is switched     *)
(* off), and the page loaded again on what was written.                    *)

\* The largest number of setItem calls a failing click gets through.
MaxWrites == 5

\* The tokens of a hand and an override store: the values of all cells plus
\* the held token.
tokensIn(held, cs) ==
    SumOver([key \in GridKeys |-> valueAt(cs, key)], GridKeys)
        + (IF held = NULL THEN 0 ELSE held[1])

\* The tokens of a new game.
baseTokens == tokensIn(NULL, << >>)

(* rect.on("click", ...) with localStorage accepting n more setItem calls. *)
(* Explored from states that hold no more than the tokens of a new game.   *)
CellClickFailing(key, n) ==
    /\ key \in cellRects
    /\ tokensIn(heldToken, cellStates) <= baseTokens
    /\ Becomes(handleCellClick([State EXCEPT !.writes = Some(n)], keyToCoord(key)))
    /\ UNCHANGED <<mapBounds, sources, page, delivered>>

AtomicNext ==
    \/ \E key \in cellRects : CellClick(key)
    \/ \E key \in cellRects, n \in 0..MaxWrites : CellClickFailing(key, n)
    \/ Restart(NULL, <<"none">>, "none")

SpecAtomic == Init /\ [][AtomicNext]_vars

\* C27: Snapshots are transition-atomic.  Whatever localStorage holds after a
\* pickup, a drop or a craft, with all writes of the handler accepted or with
\* the later ones refused, pairs the cell and the hand of one completed
\* transition: the page loaded on it holds exactly the tokens of a new game,
\* none duplicated and none lost, and so does the running page.
C27_SnapshotsTransitionAtomic ==
    LET r == startup(storage, NULL, "none", geoFeed)
    IN  /\ tokensIn(r.heldToken, r.cellStates) = baseTokens
        /\ tokensIn(heldToken, cellStates) = baseTokens

====
